---- MODULE Spec2Model ----
(***************************************************************************)
(* Model of watch_and_upload.py: the watch supervisor (SyncApp's           *)
(* toggle_watching / start_watching / stop_watching and the tray entry     *)
(* points) and the mirror handler (FileUploadHandler).                     *)
(*                                                                         *)
(* Paths and patterns are Python strings, modelled as sequences of         *)
(* one-character strings.  SEP stands for os.sep; the alphabet is lower    *)
(* case, so os.path.normcase (applied by fnmatch) leaves every string of   *)
(* the model unchanged.                                                    *)
(***************************************************************************)
EXTENDS Integers, Sequences, FiniteSets, TLC

SEP == "/"

(* ---------------------------------------------------------------------- *)
(* Bounds                                                                 *)
(* ---------------------------------------------------------------------- *)
MaxPatterns == 2
MaxSessions == 2
MaxQueue    == 1
MaxContent  == 2
MaxTargets  == 2
MaxPending  == 2

(* ---------------------------------------------------------------------- *)
(* Python string helpers.  An argument is bound once, as the only element  *)
(* of a set, where the definition uses it more than once.                  *)
(* ---------------------------------------------------------------------- *)
Range(s) == { s[i] : i \in 1..Len(s) }

RECURSIVE Join(_)
\* os.sep.join(parts)
Join(parts) ==
  CHOOSE joined \in
    { IF p = <<>> THEN <<>>
      ELSE IF Len(p) = 1 THEN p[1]
      ELSE p[1] \o <<SEP>> \o Join(Tail(p)) : p \in { parts } } : TRUE

RECURSIVE Split(_)
\* s.split(os.sep): always at least one part, empty parts are kept
Split(s) ==
  CHOOSE parts \in
    { IF \A i \in 1..Len(t) : t[i] # SEP THEN << t >>
      ELSE LET k == CHOOSE i \in 1..Len(t) :
                       t[i] = SEP /\ \A j \in 1..(i - 1) : t[j] # SEP
           IN  << SubSeq(t, 1, k - 1) >> \o Split(SubSeq(t, k + 1, Len(t)))
      : t \in { s } } : TRUE

RECURSIVE rstrip(_, _)
\* s.rstrip(chars): drops every trailing character that is in the set chars
rstrip(s, chars) ==
  CHOOSE stripped \in
    { IF t # <<>> /\ t[Len(t)] \in chars
      THEN rstrip(SubSeq(t, 1, Len(t) - 1), chars)
      ELSE t : t \in { s } } : TRUE

startswith(s, c) == s # <<>> /\ s[1] = c
endswith(s, c)   == s # <<>> /\ s[Len(s)] = c

\* os.path.basename(path): what follows the last separator
basename(path) ==
  CHOOSE name \in { parts[Len(parts)] : parts \in { Split(path) } } : TRUE

\* os.path.dirname(path): what precedes the last separator
dirname(path) ==
  CHOOSE dir \in { Join(SubSeq(parts, 1, Len(parts) - 1)) :
                     parts \in { Split(path) } } : TRUE

\* os.path.join(a, b) for a relative b and an a without trailing separator
join(a, b) == a \o <<SEP>> \o b

RECURSIVE fnmatch(_, _)
\* fnmatch.fnmatch(name, pat) for patterns over literals, '*' and '?';
\* '*' and '?' also match the separator
fnmatch(name, pat) ==
  \E n \in { name }, p \in { pat } :
    IF p = <<>> THEN n = <<>>
    ELSE IF Head(p) = "*"
         THEN fnmatch(n, Tail(p))
              \/ (n # <<>> /\ fnmatch(Tail(n), p))
         ELSE /\ n # <<>>
              /\ (Head(p) = "?" \/ Head(p) = Head(n))
              /\ fnmatch(Tail(n), Tail(p))

\* length of the longest common prefix of two lists of path parts
RECURSIVE CommonLen(_, _)
CommonLen(a, b) ==
  CHOOSE n \in
    { IF x # <<>> /\ y # <<>> /\ Head(x) = Head(y)
      THEN 1 + CommonLen(Tail(x), Tail(y))
      ELSE 0 : x \in { a }, y \in { b } } : TRUE

\* the value standing for a raised ValueError
ValueError == << "ValueError" >>

\* os.path.relpath(path, start) for absolute normalised paths whose first
\* part is the drive; "ValueError" when the drives differ (ntpath)
relpath(path, start) ==
  CHOOSE relative \in
    { LET i  == CommonLen(pp, sp)
          ups == [ k \in 1..(Len(sp) - i) |-> <<".", ".">> ]
          rel == ups \o SubSeq(pp, i + 1, Len(pp))
      IN  IF pp[1] # sp[1] THEN ValueError
          ELSE IF rel = <<>> THEN <<".">>
          ELSE Join(rel) : pp \in { Split(path) }, sp \in { Split(start) } }
    : TRUE

(* ---------------------------------------------------------------------- *)
(* FileUploadHandler.should_process_file                                  *)
(* ---------------------------------------------------------------------- *)
\* one iteration of the loop over exclude_patterns: True when the pattern
\* excludes the file
PatternExcludes(relative_path, path_parts, pattern) ==
  \/ \E k \in 1..Len(path_parts) :
        fnmatch(path_parts[k], rstrip(pattern, {"/", "*"}))
  \/ fnmatch(relative_path, pattern)

RECURSIVE PatternLoop(_, _, _)
\* the for loop with its early returns
PatternLoop(relative_path, path_parts, patterns) ==
  IF patterns = <<>> THEN "admit"
  ELSE IF PatternExcludes(relative_path, path_parts, Head(patterns))
       THEN "skip_excluded"
       ELSE PatternLoop(relative_path, path_parts, Tail(patterns))

IsTempName(file_name) == endswith(file_name, "~") \/ startswith(file_name, ".")

\* should_process_file without the test of the file name
should_process_file_no_temp(file_path, watch_config) ==
  LET relative_path == relpath(file_path, watch_config.local)
  IN  IF relative_path = ValueError THEN "raise"
      ELSE PatternLoop(relative_path, Split(relative_path),
                       watch_config.exclude_patterns)

\* "raise"         : os.path.relpath raised, nothing was logged
\* "skip_temp"     : logged, returns False
\* "skip_excluded" : logged, returns False
\* "admit"         : returns True
should_process_file(file_path, watch_config) ==
  LET file_name     == basename(file_path)
      relative_path == relpath(file_path, watch_config.local)
  IN  IF relative_path = ValueError THEN "raise"
      ELSE LET path_parts == Split(relative_path)
           IN  IF IsTempName(file_name) THEN "skip_temp"
               ELSE PatternLoop(relative_path, path_parts,
                                watch_config.exclude_patterns)

(* ---------------------------------------------------------------------- *)
(* The universe of the model                                              *)
(* ---------------------------------------------------------------------- *)
LocalA == << "c", "/", "a" >>       \* an existing source root
LocalB == << "c", "/", "b" >>       \* a second existing source root
LocalX == << "c", "/", "x" >>       \* a source root that does not exist
WslA   == << "w", "/", "a" >>
WslB   == << "w", "/", "b" >>
Foreign == << "d", "/", "n" >>      \* a file on another drive

ExistingRoots == { LocalA, LocalB }

\* relative paths of the files the environment touches
RelPaths ==
  { << "n" >>,
    << "n", ".", "t" >>,
    << ".", "n" >>,
    << "n", "~" >>,
    << "b", "n" >>,
    << "b", "/", "n" >>,
    << "d", "/", "b", "n" >>,
    << "d", "/", ".", "n" >>,
    << "a", "/", "b", "/", "n" >> }

Patterns ==
  { << "*", ".", "t" >>,
    << "b", "/", "*" >>,
    << "b", "/" >>,
    << "b", "*" >>,
    << "n" >>,
    << "?" >>,
    << "*" >> }

RECURSIVE SeqsUpTo(_, _)
\* all lists over S of length at most n
SeqsUpTo(S, n) ==
  IF n = 0 THEN { <<>> }
  ELSE LET shorter == SeqsUpTo(S, n - 1)
       IN  shorter \cup { Append(q, x) : q \in shorter, x \in S }

PatLists == SeqsUpTo(Patterns, MaxPatterns)

Target(local, wsl, patterns) ==
  [ local |-> local, wsl |-> wsl, exclude_patterns |-> patterns ]

(* ---------------------------------------------------------------------- *)
(* State                                                                  *)
(* ---------------------------------------------------------------------- *)
VARIABLES
  config,       \* self.config["watch_dirs"]: list of targets
  observers,    \* self.observers: list of session ids
  is_watching,  \* self.is_watching
  thr,          \* the control threads: position in the entry point
  sess,         \* the watch sessions (Observer + FileUploadHandler)
  src,          \* source files: path -> content, 0 when absent
  dstDirs,      \* directories below the destination roots
  dstFiles,     \* destination files: path -> content
  world,        \* the source paths the environment touches
  quit,         \* quit_app has run
  mcase         \* the call of should_process_file under test

vars == << config, observers, is_watching, thr, sess, src, dstDirs,
           dstFiles, world, quit, mcase >>

Sessions == 1..MaxSessions
Threads  == { "tk", "tray" }

NoTarget == Target(<<>>, <<>>, <<>>)
NoEvent  == [ kind |-> "none", is_directory |-> FALSE, src_path |-> <<>> ]

Event(kind, is_directory, src_path) ==
  [ kind |-> kind, is_directory |-> is_directory, src_path |-> src_path ]

EventKinds == { "created", "modified", "deleted", "moved" }

LogEntry(level, msg) == [ level |-> level, msg |-> msg, exc |-> "" ]

UnusedSession ==
  [ st |-> "unused", cfg |-> NoTarget, q |-> <<>>, hpc |-> "idle",
    ev |-> NoEvent, outcome |-> "none", evlog |-> <<>> ]

RunningSession(watch_config) ==
  [ UnusedSession EXCEPT !.st = "running", !.cfg = watch_config ]

IdleThread == [ pc |-> "idle", op |-> "none", i |-> 0, cur |-> 0 ]

\* the sessions nothing refers to any more: stopped, thread ended, neither
\* in the list nor held by a control thread
Released(ss, obs, th) ==
  { s \in Sessions :
      /\ ss[s].st = "stopped"
      /\ ss[s].hpc \in { "idle", "crashed" }
      /\ s \notin Range(obs)
      /\ \A t \in Threads : th[t].cur # s }

Reclaim(ss, obs, th) ==
  [ s \in Sessions |->
      IF s \in Released(ss, obs, th) THEN UnusedSession ELSE ss[s] ]

\* os.path.exists(file_path) for a source file
exists(file_path) == file_path \in DOMAIN src /\ src[file_path] # 0

\* path lies below the directory root
IsUnder(path, root) ==
  \E pp \in { Split(path) }, rp \in { Split(root) } :
    Len(rp) < Len(pp) /\ SubSeq(pp, 1, Len(rp)) = rp

\* the sessions whose recursive watch covers path
Watchers(path) ==
  { s \in Sessions : /\ sess[s].st = "running"
                     /\ sess[s].hpc # "crashed"
                     /\ IsUnder(path, sess[s].cfg.local) }

(* ---------------------------------------------------------------------- *)
(* FileUploadHandler: one event, in the observer's thread.  A frame is     *)
(* the handler's position together with the destination tree it writes:    *)
(*   hpc, ev, outcome, evlog : as in the session record                    *)
(*   dirs, files             : dstDirs and dstFiles                        *)
(*   wrote                   : the path shutil.copy2 has written in this   *)
(*                             step, <<>> when it has written none         *)
(* ---------------------------------------------------------------------- *)
\* on_created / on_modified without the test of event.is_directory
on_event_any(event, watch_config) ==
  IF event.kind \notin { "created", "modified" } THEN "ignored"
  ELSE should_process_file(event.src_path, watch_config)

\* a handler that overrides on_created only
on_event_created_only(event, watch_config) ==
  IF event.kind # "created" THEN "ignored"
  ELSE IF event.is_directory THEN "ignored"
  ELSE should_process_file(event.src_path, watch_config)

\* what on_created / on_modified do with the event up to the call of
\* copy_to_wsl; events of other kinds reach the empty methods of the base
\* class
on_event(event, watch_config) ==
  IF event.kind \notin { "created", "modified" } THEN "ignored"
  ELSE IF event.is_directory THEN "ignored"
  ELSE should_process_file(event.src_path, watch_config)

\* on_modified / on_created is entered with event
dispatch(h, event, watch_config) ==
  LET r == on_event(event, watch_config)
      base == [ h EXCEPT !.ev = event, !.evlog = <<>> ]
  IN  CASE r = "ignored" ->
             [ base EXCEPT !.outcome = "ignored", !.hpc = "return" ]
        [] r = "raise" ->
             [ base EXCEPT !.outcome = "raised", !.hpc = "crashed" ]
        [] r \in { "skip_temp", "skip_excluded" } ->
             [ base EXCEPT !.outcome = r, !.hpc = "return",
                           !.evlog = << LogEntry("info", r) >> ]
        [] OTHER ->
             [ base EXCEPT !.outcome = "busy", !.hpc = "copy_to_wsl" ]

\* copy_to_wsl up to the existence check
copy_begin(h) ==
  LET logged == Append(h.evlog, LogEntry("info", "prepare"))
  IN  IF exists(h.ev.src_path)
      THEN [ h EXCEPT !.evlog = logged, !.hpc = "makedirs" ]
      ELSE [ h EXCEPT !.evlog = logged, !.hpc = "return",
                      !.outcome = "vanished" ]

\* a destination path below the source root
destination_path_in_place(file_path, watch_config) ==
  join(watch_config.local, relpath(file_path, watch_config.local))

\* the destination path copy_to_wsl computes
destination_path(file_path, watch_config) ==
  join(watch_config.wsl, relpath(file_path, watch_config.local))

\* the directories os.makedirs(d) makes sure of: d and all its ancestors
Ancestors(d) ==
  UNION { { Join(SubSeq(parts, 1, k)) : k \in 1..Len(parts) } :
            parts \in { Split(d) } }

FilePaths(files) == { f[1] : f \in files }

\* an except branch that swallows the exception without a log line
copy_error_silent(h, e) ==
  [ h EXCEPT !.hpc = "return", !.outcome = "copy_failed" ]

\* the except branch of copy_to_wsl: the error line carries the exception
copy_error(h, e) ==
  [ h EXCEPT !.evlog = Append(@, [ level |-> "error", msg |-> "copy_error",
                                   exc |-> e ]),
             !.hpc = "return", !.outcome = "copy_failed" ]

\* os.makedirs(d) without exist_ok: an existing d is an error
makedirs_strict(d, dirs, files, io_error) ==
  IF io_error THEN [ exc |-> "OSError", dirs |-> dirs ]
  ELSE IF Ancestors(d) \cap FilePaths(files) # {} \/ d \in dirs
       THEN [ exc |-> "FileExistsError", dirs |-> dirs ]
       ELSE [ exc |-> "", dirs |-> dirs \cup Ancestors(d) ]

\* os.makedirs(d, exist_ok=True): the directories afterwards, or the
\* exception it raises; io_error is the environment refusing the call
\* (permission denied, destination unreachable, disk full)
makedirs(d, dirs, files, io_error) ==
  IF io_error THEN [ exc |-> "OSError", dirs |-> dirs ]
  ELSE IF Ancestors(d) \cap FilePaths(files) # {}
       THEN [ exc |-> "FileExistsError", dirs |-> dirs ]
       ELSE [ exc |-> "", dirs |-> dirs \cup Ancestors(d) ]

\* the try block up to os.makedirs
make_dirs(h, watch_config, io_error) ==
  LET d == dirname(destination_path(h.ev.src_path, watch_config))
      r == makedirs(d, h.dirs, h.files, io_error)
  IN  IF r.exc # "" THEN copy_error(h, r.exc)
      ELSE [ h EXCEPT !.dirs = r.dirs, !.hpc = "copy2" ]

\* shutil.copy2(src, dst) writes into dst when dst is a directory
copy2_target(file_path, dst, dirs) ==
  IF dst \in dirs THEN join(dst, basename(file_path)) ELSE dst

\* a copy that leaves a file already at the destination as it is
copy2_keep_existing(h, watch_config, io_error) ==
  LET file_path == h.ev.src_path
      dst == destination_path(file_path, watch_config)
  IN  IF ~exists(file_path) THEN copy_error(h, "FileNotFoundError")
      ELSE IF io_error THEN copy_error(h, "OSError")
      ELSE [ h EXCEPT !.files = IF dst \in FilePaths(@) THEN @
                                ELSE @ \cup { << dst, src[file_path] >> },
                      !.wrote = IF dst \in FilePaths(h.files) THEN <<>>
                                ELSE dst,
                      !.evlog = Append(@, LogEntry("info", "copied")),
                      !.hpc = "return", !.outcome = "copied" ]

\* shutil.copy2 and the log line after it
copy2(h, watch_config, io_error) ==
  LET file_path == h.ev.src_path
      dst == copy2_target(file_path,
                          destination_path(file_path, watch_config), h.dirs)
      r == IF ~exists(file_path) THEN "FileNotFoundError"
           ELSE IF dst \in h.dirs THEN "IsADirectoryError"
           ELSE IF io_error THEN "OSError"
           ELSE "ok"
  IN  IF r # "ok" THEN copy_error(h, r)
      ELSE [ h EXCEPT !.files = { f \in @ : f[1] # dst }
                                  \cup { << dst, src[file_path] >> },
                      !.wrote = dst,
                      !.evlog = Append(@, LogEntry("info", "copied")),
                      !.hpc = "return", !.outcome = "copied" ]

\* the handler returns to the observer's dispatch loop
return(h) ==
  [ h EXCEPT !.hpc = "idle", !.ev = NoEvent, !.outcome = "none",
             !.evlog = <<>> ]

\* the frame of session s, and the state after the frame has changed
Frame(s) ==
  [ hpc |-> sess[s].hpc, ev |-> sess[s].ev, outcome |-> sess[s].outcome,
    evlog |-> sess[s].evlog, dirs |-> dstDirs, files |-> dstFiles,
    wrote |-> <<>> ]

\* the content of the file at path in a set of files
Content(files, path) == (CHOOSE f \in files : f[1] = path)[2]

\* the event the observers report for a file the handler has written
WriteEvent(path) ==
  Event(IF exists(path) THEN "modified" ELSE "created", FALSE, path)

\* the frame has changed: besides the handler's own record and the
\* destination tree, a file written below a watched source root is a file
\* of that tree, and every session watching it has the event queued
SetFrame(s, h, queue) ==
  \E f \in { h } :
  \E watching \in { Watchers(f.wrote) } :
    /\ \A x \in watching :
          Len(IF x = s THEN queue ELSE sess[x].q) < MaxPending
    /\ \E ss \in { [ x \in Sessions |->
                       LET own == IF x = s
                                  THEN [ sess[s] EXCEPT
                                           !.hpc = f.hpc, !.ev = f.ev,
                                           !.outcome = f.outcome,
                                           !.evlog = f.evlog, !.q = queue ]
                                  ELSE sess[x]
                       IN  IF x \in watching
                           THEN [ own EXCEPT
                                    !.q = Append(@, WriteEvent(f.wrote)) ]
                           ELSE own ] } :
          sess' = Reclaim(ss, observers, thr)
    /\ dstDirs' = f.dirs
    /\ dstFiles' = f.files
    /\ src' = IF f.wrote \in DOMAIN src
              THEN [ src EXCEPT ![f.wrote] = Content(f.files, f.wrote) ]
              ELSE src

\* a dispatch loop that takes the newest event of the queue
event_queue_get_newest(queue) ==
  [ event |-> queue[Len(queue)],
    rest  |-> SubSeq(queue, 1, Len(queue) - 1) ]

\* the observer's dispatch loop takes the oldest event of its queue
event_queue_get(queue) ==
  [ event |-> Head(queue), rest |-> Tail(queue) ]

\* the steps of the handler of session s, one at a time
\* one thread dispatching the events of every session
observer_thread_shared(s) == 0

\* the thread that dispatches the events of session s: every Observer is
\* a thread of its own
observer_thread(s) == s

Dispatch(s) ==
  /\ sess[s].st = "running"
  /\ \A x \in Sessions :
        observer_thread(x) = observer_thread(s) => sess[x].hpc = "idle"
  /\ sess[s].q # <<>>
  /\ \E got \in { event_queue_get(sess[s].q) } :
        SetFrame(s, dispatch(Frame(s), got.event, sess[s].cfg), got.rest)
  /\ UNCHANGED << config, observers, is_watching, thr, world, quit,
                  mcase >>

CopyBegin(s) ==
  /\ sess[s].hpc = "copy_to_wsl"
  /\ SetFrame(s, copy_begin(Frame(s)), sess[s].q)
  /\ UNCHANGED << config, observers, is_watching, thr, world, quit,
                  mcase >>

MakeDirs(s, io_error) ==
  /\ sess[s].hpc = "makedirs"
  /\ SetFrame(s, make_dirs(Frame(s), sess[s].cfg, io_error), sess[s].q)
  /\ UNCHANGED << config, observers, is_watching, thr, world, quit,
                  mcase >>

Copy2(s, io_error) ==
  /\ sess[s].hpc = "copy2"
  /\ SetFrame(s, copy2(Frame(s), sess[s].cfg, io_error), sess[s].q)
  /\ UNCHANGED << config, observers, is_watching, thr, world, quit,
                  mcase >>

Return(s) ==
  /\ sess[s].hpc = "return"
  /\ SetFrame(s, return(Frame(s)), sess[s].q)
  /\ UNCHANGED << config, observers, is_watching, thr, world, quit,
                  mcase >>

\* the handler from entry to return, nothing in between: each step is
\* applied to the one frame the step before has left
run_handler(h0, event, watch_config, io1, io2) ==
  LET entered == { dispatch(h0, event, watch_config) }
      begun   == { IF h.hpc = "copy_to_wsl" THEN copy_begin(h) ELSE h :
                     h \in entered }
      made    == { IF h.hpc = "makedirs"
                   THEN make_dirs(h, watch_config, io1) ELSE h :
                     h \in begun }
      copied  == { IF h.hpc = "copy2"
                   THEN copy2(h, watch_config, io2) ELSE h :
                     h \in made }
      left    == { IF h.hpc = "return" THEN return(h) ELSE h :
                     h \in copied }
  IN  CHOOSE h \in left : TRUE

\* one event of session s handled from entry to return
HandleEvent(s, io1, io2) ==
  /\ sess[s].st = "running"
  /\ sess[s].hpc = "idle"
  /\ sess[s].q # <<>>
  /\ \E got \in { event_queue_get(sess[s].q) } :
        \E h \in { run_handler(Frame(s), got.event, sess[s].cfg,
                                io1, io2) } :
          SetFrame(s, h, got.rest)
  /\ UNCHANGED << config, observers, is_watching, thr, world, quit,
                  mcase >>

(* ---------------------------------------------------------------------- *)
(* The environment                                                        *)
(* ---------------------------------------------------------------------- *)
\* the observer of session s queues an event for its handler
Notify(s, event) ==
  /\ sess[s].st = "running"
  /\ sess[s].hpc # "crashed"
  /\ Len(sess[s].q) < MaxQueue
  /\ sess' = [ sess EXCEPT ![s].q = Append(@, event) ]
  /\ UNCHANGED << config, observers, is_watching, thr, src, dstDirs,
                  dstFiles, world, quit, mcase >>

\* a source file is created or rewritten
EnvWrite(p, c) ==
  /\ p \in world
  /\ src[p] # c
  /\ src' = [ src EXCEPT ![p] = c ]
  /\ UNCHANGED << config, observers, is_watching, thr, sess, dstDirs,
                  dstFiles, world, quit, mcase >>

\* a source file is deleted
EnvDelete(p) ==
  /\ p \in world
  /\ src[p] # 0
  /\ src' = [ src EXCEPT ![p] = 0 ]
  /\ UNCHANGED << config, observers, is_watching, thr, sess, dstDirs,
                  dstFiles, world, quit, mcase >>

(* ---------------------------------------------------------------------- *)
(* SyncApp: the control entry points, run by the Tk thread ("tk": the      *)
(* watch button and the delayed start_monitoring) and by the tray thread   *)
(* ("tray": the menu items)                                                *)
(* ---------------------------------------------------------------------- *)
\* the watch button
ToggleButton(t) ==
  /\ t = "tk"
  /\ ~quit
  /\ thr[t].pc = "idle"
  /\ thr' = [ thr EXCEPT ![t] = [ @ EXCEPT !.pc = "tg_check",
                                           !.op = "toggle" ] ]
  /\ UNCHANGED << config, observers, is_watching, sess, src, dstDirs,
                  dstFiles, world, quit, mcase >>

\* the watch button pressed twice in a row: Tk runs the two calls of
\* toggle_watching one after the other
ToggleTwice(t) ==
  /\ t = "tk"
  /\ ~quit
  /\ thr[t].pc = "idle"
  /\ thr' = [ thr EXCEPT ![t] = [ @ EXCEPT !.pc = "tg_check",
                                           !.op = "toggle_twice" ] ]
  /\ UNCHANGED << config, observers, is_watching, sess, src, dstDirs,
                  dstFiles, world, quit, mcase >>

\* start_monitoring is entered: self.after(1000, ...) or the tray menu
StartMonitoring(t) ==
  /\ ~quit
  /\ thr[t].pc = "idle"
  /\ thr' = [ thr EXCEPT ![t] = [ @ EXCEPT !.pc = "sm_check",
                                           !.op = "start" ] ]
  /\ UNCHANGED << config, observers, is_watching, sess, src, dstDirs,
                  dstFiles, world, quit, mcase >>

\* stop_monitoring is entered from the tray menu
StopMonitoring(t) ==
  /\ t = "tray"
  /\ ~quit
  /\ thr[t].pc = "idle"
  /\ thr' = [ thr EXCEPT ![t] = [ @ EXCEPT !.pc = "sm_check",
                                           !.op = "stop" ] ]
  /\ UNCHANGED << config, observers, is_watching, sess, src, dstDirs,
                  dstFiles, world, quit, mcase >>

\* the test of is_watching in start_monitoring / stop_monitoring
MonitoringCheck(t) ==
  /\ thr[t].pc = "sm_check"
  /\ thr' = [ thr EXCEPT ![t] =
        IF (thr[t].op = "start") = (~is_watching)
        THEN [ @ EXCEPT !.pc = "tg_check", !.op = "toggle" ]
        ELSE IdleThread ]
  /\ UNCHANGED << config, observers, is_watching, sess, src, dstDirs,
                  dstFiles, world, quit, mcase >>

\* the test of is_watching in toggle_watching
ToggleCheck(t) ==
  /\ thr[t].pc = "tg_check"
  /\ thr' = [ thr EXCEPT ![t] =
        [ @ EXCEPT !.pc = IF ~is_watching THEN "start" ELSE "stop",
                   !.i = 1 ] ]
  /\ UNCHANGED << config, observers, is_watching, sess, src, dstDirs,
                  dstFiles, world, quit, mcase >>

\* observer.schedule + observer.start: raises when the root cannot be
\* watched
Watchable(watch_config) == watch_config.local \in ExistingRoots

FreeSessions == { s \in Sessions : sess[s].st = "unused" }

\* one iteration of the loop of start_watching, or its end
StartStep(t) ==
  /\ thr[t].pc = "start"
  /\ IF thr[t].i > Len(config)
     THEN /\ thr' = [ thr EXCEPT ![t] = [ @ EXCEPT !.pc = "flip", !.i = 0 ] ]
          /\ UNCHANGED << sess, observers >>
     ELSE IF ~Watchable(config[thr[t].i])
     THEN \* the exception leaves start_watching and toggle_watching
          /\ thr' = [ thr EXCEPT ![t] = IdleThread ]
          /\ UNCHANGED << sess, observers >>
     ELSE /\ FreeSessions # {}
          /\ LET s == CHOOSE x \in FreeSessions :
                         \A y \in FreeSessions : x <= y
             IN  /\ sess' = [ sess EXCEPT ![s] =
                                RunningSession(config[thr[t].i]) ]
                 /\ observers' = Append(observers, s)
          /\ thr' = [ thr EXCEPT ![t].i = @ + 1 ]
  /\ UNCHANGED << config, is_watching, src, dstDirs, dstFiles, world,
                  quit, mcase >>

\* quit_app is entered from the tray menu: stop_watching comes first
QuitApp(t) ==
  /\ t = "tray"
  /\ ~quit
  /\ thr[t].pc = "idle"
  /\ thr' = [ thr EXCEPT ![t] = [ @ EXCEPT !.pc = "stop", !.op = "quit",
                                           !.i = 1 ] ]
  /\ UNCHANGED << config, observers, is_watching, sess, src, dstDirs,
                  dstFiles, world, quit, mcase >>

\* the loop of stop_watching takes the next observer and calls stop(): the
\* observer's thread takes no further event
StopStep(t) ==
  /\ thr[t].pc = "stop"
  /\ IF thr[t].i > Len(observers)
     THEN /\ thr' = [ thr EXCEPT ![t] = [ @ EXCEPT !.pc = "clear" ] ]
          /\ UNCHANGED sess
     ELSE LET s == observers[thr[t].i]
          IN  /\ sess' = [ sess EXCEPT ![s] =
                             [ @ EXCEPT !.st = "stopped", !.q = <<>> ] ]
              /\ thr' = [ thr EXCEPT ![t] = [ @ EXCEPT !.pc = "join",
                                                       !.cur = s ] ]
  /\ UNCHANGED << config, observers, is_watching, src, dstDirs, dstFiles,
                  world, quit, mcase >>

\* observer.join() returns once the observer's thread has ended
JoinStep(t) ==
  /\ thr[t].pc = "join"
  /\ sess[thr[t].cur].hpc \in { "idle", "crashed" }
  /\ LET th == [ thr EXCEPT ![t] = [ @ EXCEPT !.pc = "stop", !.i = @ + 1,
                                              !.cur = 0 ] ]
     IN  /\ thr' = th
         /\ sess' = Reclaim(sess, observers, th)
  /\ UNCHANGED << config, observers, is_watching, src, dstDirs, dstFiles,
                  world, quit, mcase >>

\* self.observers.clear(), then the rest of the caller: quit_app ends the
\* main loop, toggle_watching goes on in its else branch to flip the flag
\* ("stopped"; "stopped_idle" when the loop of stop_watching has found the
\* list empty; "stopped_once" for the first of two presses)
ClearStep(t) ==
  /\ thr[t].pc = "clear"
  /\ observers' = <<>>
  /\ sess' = Reclaim(sess, <<>>, thr)
  /\ IF thr[t].op = "quit"
     THEN /\ quit' = TRUE
          /\ thr' = [ thr EXCEPT ![t] = IdleThread ]
     ELSE /\ UNCHANGED quit
          /\ thr' = [ thr EXCEPT ![t] =
                [ @ EXCEPT !.pc = "flip", !.i = 0,
                           !.op = IF @ = "toggle_twice" THEN "stopped_once"
                                  ELSE IF thr[t].i = 1 THEN "stopped_idle"
                                  ELSE "stopped" ] ]
  /\ UNCHANGED << config, is_watching, src, dstDirs, dstFiles, world,
                  mcase >>

\* self.is_watching = not self.is_watching; of two presses in a row, the
\* second call of toggle_watching comes next ("restart" when the first has
\* stopped the watching)
FlipStep(t) ==
  /\ thr[t].pc = "flip"
  /\ is_watching' = ~is_watching
  /\ thr' = [ thr EXCEPT ![t] =
        IF thr[t].op = "stopped_once"
        THEN [ IdleThread EXCEPT !.pc = "tg_check", !.op = "restart" ]
        ELSE IF thr[t].op = "toggle_twice"
        THEN [ IdleThread EXCEPT !.pc = "tg_check", !.op = "toggle" ]
        ELSE IdleThread ]
  /\ UNCHANGED << config, observers, sess, src, dstDirs, dstFiles, world,
                  quit, mcase >>

(* ---------------------------------------------------------------------- *)
(* The handler on its own: one running session, any event                  *)
(* ---------------------------------------------------------------------- *)
PathsA == { join(LocalA, r) : r \in RelPaths }
PathsB == { join(LocalB, << "n" >>) }
AllSrcPaths == PathsA \cup PathsB \cup { Foreign }

HandlerPaths ==
  { join(LocalA, << "n" >>),
    join(LocalA, << ".", "n" >>),
    join(LocalA, << "n", "~" >>),
    join(LocalA, << "n", ".", "t" >>),
    join(LocalA, << "b", "/", "n" >>),
    join(LocalA, << "a", "/", "b", "/", "n" >>),
    Foreign }

HandlerPatLists ==
  { <<>>,
    << << "*", ".", "t" >>, << "b", "/", "*" >> >>,
    << << "*" >> >> }

NoCase == [ path |-> <<>>, pats |-> <<>>, res |-> "none" ]

InitHandler ==
  /\ config \in { << Target(LocalA, WslA, pl) >> : pl \in HandlerPatLists }
  /\ observers = << 1 >>
  /\ is_watching = TRUE
  /\ thr = [ t \in Threads |-> IdleThread ]
  /\ sess = [ s \in Sessions |->
                IF s = 1 THEN RunningSession(config[1]) ELSE UnusedSession ]
  /\ src = [ p \in AllSrcPaths |-> 0 ]
  /\ dstDirs = {}
  /\ dstFiles = {}
  /\ world \in { { p } : p \in HandlerPaths }
  /\ quit = FALSE
  /\ mcase = NoCase

NextHandler ==
  \/ \E k \in EventKinds, d \in BOOLEAN, p \in world :
        Notify(1, Event(k, d, p))
  \/ Dispatch(1)
  \/ CopyBegin(1)
  \/ Return(1)
  \/ \E io_error \in BOOLEAN : MakeDirs(1, io_error)
  \/ \E io_error \in BOOLEAN : Copy2(1, io_error)
  \/ \E p \in world, c \in 1..MaxContent : EnvWrite(p, c)
  \/ \E p \in world : EnvDelete(p)

SpecHandler == InitHandler /\ [][NextHandler]_vars

(* ---------------------------------------------------------------------- *)
(* should_process_file on its own                                         *)
(* ---------------------------------------------------------------------- *)
InitMatch ==
  /\ config = <<>>
  /\ observers = <<>>
  /\ is_watching = FALSE
  /\ thr = [ t \in Threads |-> IdleThread ]
  /\ sess = [ s \in Sessions |-> UnusedSession ]
  /\ src = [ p \in AllSrcPaths |-> 0 ]
  /\ dstDirs = {}
  /\ dstFiles = {}
  /\ world = {}
  /\ quit = FALSE
  /\ mcase \in { [ path |-> p, pats |-> pl, res |-> "none" ] :
                   p \in PathsA, pl \in PatLists }

Match ==
  /\ mcase.res = "none"
  /\ mcase' = [ mcase EXCEPT !.res =
        should_process_file(mcase.path,
                            Target(LocalA, WslA, mcase.pats)) ]
  /\ UNCHANGED << config, observers, is_watching, thr, sess, src, dstDirs,
                  dstFiles, world, quit >>

NextMatch == Match

SpecMatch == InitMatch /\ [][NextMatch]_vars

(* ---------------------------------------------------------------------- *)
(* The whole program: control threads, sessions, file system              *)
(* ---------------------------------------------------------------------- *)
TargetA == Target(LocalA, WslA, << << "*", ".", "t" >> >>)
TargetB == Target(LocalB, WslB, <<>>)
TargetX == Target(LocalX, WslB, <<>>)

Configs ==
  { <<>>,
    << TargetA >>,
    << TargetA, TargetB >>,
    << TargetA, TargetX, TargetB >> }

\* every watcher of path gets the event
Emit(event) ==
  /\ \A s \in Watchers(event.src_path) : Len(sess[s].q) < MaxQueue
  /\ sess' = [ s \in Sessions |->
                 IF s \in Watchers(event.src_path)
                 THEN [ sess[s] EXCEPT !.q = Append(@, event) ]
                 ELSE sess[s] ]

\* a watched source file is created or rewritten
FsWrite(p, c) ==
  /\ p \in world
  /\ src[p] # c
  /\ src' = [ src EXCEPT ![p] = c ]
  /\ Emit(Event(IF src[p] = 0 THEN "created" ELSE "modified", FALSE, p))
  /\ UNCHANGED << config, observers, is_watching, thr, dstDirs, dstFiles,
                  world, quit, mcase >>

\* a watched source file is deleted
FsDelete(p) ==
  /\ p \in world
  /\ src[p] # 0
  /\ src' = [ src EXCEPT ![p] = 0 ]
  /\ Emit(Event("deleted", FALSE, p))
  /\ UNCHANGED << config, observers, is_watching, thr, dstDirs, dstFiles,
                  world, quit, mcase >>

Init ==
  /\ config \in Configs
  /\ observers = <<>>
  /\ is_watching = FALSE
  /\ thr = [ t \in Threads |-> IdleThread ]
  /\ sess = [ s \in Sessions |-> UnusedSession ]
  /\ src = [ p \in AllSrcPaths |-> 0 ]
  /\ dstDirs = {}
  /\ dstFiles = {}
  /\ world = { join(LocalA, << "n" >>) }
  /\ quit = FALSE
  /\ mcase = NoCase

\* a step of control thread t
ControlStep(t) ==
  \/ ToggleButton(t)
  \/ StartMonitoring(t)
  \/ StopMonitoring(t)
  \/ QuitApp(t)
  \/ MonitoringCheck(t)
  \/ ToggleCheck(t)
  \/ StartStep(t)
  \/ StopStep(t)
  \/ JoinStep(t)
  \/ ClearStep(t)
  \/ FlipStep(t)

Next ==
  \/ \E t \in Threads : ControlStep(t)
  \/ \E s \in Sessions, io1 \in BOOLEAN, io2 \in BOOLEAN :
        HandleEvent(s, io1, io2)
  \/ \E p \in world, c \in 1..MaxContent : FsWrite(p, c)
  \/ \E p \in world : FsDelete(p)

Spec == Init /\ [][Next]_vars

(* ---------------------------------------------------------------------- *)
(* The supervisor on its own, the button also pressed twice in a row: no   *)
(* source file changes, so no session has an event to handle               *)
(* ---------------------------------------------------------------------- *)
InitRestart ==
  /\ Init
  /\ config \in { << TargetA >>, << TargetA, TargetB >> }

NextRestart ==
  \/ \E t \in Threads : ControlStep(t)
  \/ ToggleTwice("tk")

SpecRestart == InitRestart /\ [][NextRestart]_vars

(* ---------------------------------------------------------------------- *)
(* The supervisor with the configuration list edited from the window: the  *)
(* callbacks run in the Tk thread, between its other callbacks             *)
(* ---------------------------------------------------------------------- *)
\* the same source root as TargetA with another destination and no pattern
TargetA2 == Target(LocalA, WslB, <<>>)

\* what a ConfigDialog can return
DialogResults == { TargetA, TargetA2 }

\* the watch_config each handler holds
Handlers == [ s \in Sessions |-> sess[s].cfg ]

\* add_config: the dialog's result is appended to the list
add_config(watch_dirs, result) == Append(watch_dirs, result)

\* delete_config: watch_dirs.pop(index)
delete_config(watch_dirs, index) ==
  SubSeq(watch_dirs, 1, index - 1)
    \o SubSeq(watch_dirs, index + 1, Len(watch_dirs))

\* an edit that updates the entry's dict in place: the handlers built from
\* that entry hold the same dict
edit_config_in_place(watch_dirs, handlers, index, result) ==
  [ watch_dirs |-> [ watch_dirs EXCEPT ![index] = result ],
    handlers   |-> [ s \in DOMAIN handlers |->
                       IF handlers[s] = watch_dirs[index] THEN result
                       ELSE handlers[s] ] ]

\* edit_config: the entry is replaced by the dialog's result, a new dict;
\* the dict a handler was built with is not touched
edit_config(watch_dirs, handlers, index, result) ==
  [ watch_dirs |-> [ watch_dirs EXCEPT ![index] = result ],
    handlers   |-> handlers ]

TkIdle == ~quit /\ thr["tk"].pc = "idle"

AddConfig(result) ==
  /\ TkIdle
  /\ Len(config) < MaxTargets
  /\ config' = add_config(config, result)
  /\ UNCHANGED << observers, is_watching, thr, sess, src, dstDirs,
                  dstFiles, world, quit, mcase >>

DeleteConfig(index) ==
  /\ TkIdle
  /\ index \in 1..Len(config)
  /\ config' = delete_config(config, index)
  /\ UNCHANGED << observers, is_watching, thr, sess, src, dstDirs,
                  dstFiles, world, quit, mcase >>

EditConfig(index, result) ==
  /\ TkIdle
  /\ index \in 1..Len(config)
  /\ result # config[index]
  /\ \E r \in { edit_config(config, Handlers, index, result) } :
        /\ config' = r.watch_dirs
        /\ sess' = [ s \in Sessions |->
                       [ sess[s] EXCEPT !.cfg = r.handlers[s] ] ]
  /\ UNCHANGED << observers, is_watching, thr, src, dstDirs, dstFiles,
                  world, quit, mcase >>

InitConfig ==
  /\ Init
  /\ config \in { <<>>, << TargetA >> }

NextConfig ==
  \/ \E t \in Threads : ControlStep(t)
  \/ \E result \in DialogResults : AddConfig(result)
  \/ \E index \in 1..MaxTargets : DeleteConfig(index)
  \/ \E index \in 1..MaxTargets, result \in DialogResults :
        EditConfig(index, result)

SpecConfig == InitConfig /\ [][NextConfig]_vars

(* ---------------------------------------------------------------------- *)
(* Two running sessions, each with its own observer thread, and the files  *)
(* of their source trees written from outside; the file system refuses no  *)
(* call.  A file is written at most MaxContent times from outside.         *)
(* ---------------------------------------------------------------------- *)
\* targets whose destination root is the other target's source root
TargetAB == Target(LocalA, LocalB, <<>>)
TargetBA == Target(LocalB, LocalA, <<>>)

\* a file of a watched tree is written from outside: every session
\* watching it has the event queued
ExtWrite(p) ==
  /\ p \in world
  /\ src[p] < MaxContent
  /\ \A x \in Watchers(p) : Len(sess[x].q) < MaxPending
  /\ sess' = [ x \in Sessions |->
                 IF x \in Watchers(p)
                 THEN [ sess[x] EXCEPT !.q = Append(@, WriteEvent(p)) ]
                 ELSE sess[x] ]
  /\ src' = [ src EXCEPT ![p] = @ + 1 ]
  /\ UNCHANGED << config, observers, is_watching, thr, dstDirs, dstFiles,
                  world, quit, mcase >>

\* a step of the observer thread of session s
HandlerStep(s) ==
  \/ Dispatch(s)
  \/ CopyBegin(s)
  \/ MakeDirs(s, FALSE)
  \/ Copy2(s, FALSE)
  \/ Return(s)

\* the state after start_watching has started one session per target
Watching(watch_dirs) ==
  /\ config = watch_dirs
  /\ observers = [ k \in 1..Len(watch_dirs) |-> k ]
  /\ is_watching = TRUE
  /\ thr = [ t \in Threads |-> IdleThread ]
  /\ sess = [ s \in Sessions |->
                IF s <= Len(watch_dirs) THEN RunningSession(watch_dirs[s])
                ELSE UnusedSession ]
  /\ src = [ p \in AllSrcPaths |-> 0 ]
  /\ dstDirs = {}
  /\ dstFiles = {}
  /\ world = { join(LocalA, << "n" >>), join(LocalB, << "n" >>) }
  /\ quit = FALSE
  /\ mcase = NoCase

InitSessions == Watching(<< TargetA, TargetB >>)

NextSessions ==
  \/ \E p \in world : ExtWrite(p)
  \/ \E s \in 1..2 : HandlerStep(s)

\* every observer thread keeps running
SpecSessions ==
  /\ InitSessions
  /\ [][NextSessions]_vars
  /\ \A s \in 1..2 : WF_vars(HandlerStep(s))

\* the observer thread of the second session keeps running, the one of the
\* first may stay in any call for ever
SpecStalled ==
  /\ InitSessions
  /\ [][NextSessions]_vars
  /\ WF_vars(HandlerStep(2))

\* what the dialog can hand to add_config: it checks neither root, so a
\* destination root may be the source root of another target
LoopResults == { TargetA, TargetB, TargetAB, TargetBA }

\* two targets have been added, one with each source root, whatever their
\* destination roots, and watching has been started
InitLoop ==
  \E a, b \in LoopResults :
    /\ a.local = LocalA
    /\ b.local = LocalB
    /\ Watching(<< a, b >>)

SpecLoop ==
  /\ InitLoop
  /\ [][NextSessions]_vars
  /\ \A s \in 1..2 : WF_vars(HandlerStep(s))

(* ====================================================================== *)
(* Properties                                                             *)
(* ====================================================================== *)
LiveObservers == { k \in 1..Len(observers) : sess[observers[k]].st = "running" }

\* C1: when a run of start_watching ends, by reaching the end of the list
\* or by an exception, every target of the list whose root can be watched
\* has a running session in the session set; a target that cannot be
\* watched does not keep the others from starting.
C1_PartialFailureStart ==
  [][ \A t \in Threads :
        (thr[t].pc = "start" /\ thr'[t].pc # "start")
        => \A k \in 1..Len(config) :
             Watchable(config[k])
             => \E s \in Range(observers') :
                  sess'[s].st = "running" /\ sess'[s].cfg = config[k] ]_vars

\* C2: start_watching never runs twice without a stop_watching in between:
\* no two control threads are inside start_watching together, and the
\* session set never holds two live observers of the same target entry.
C2_NoDoubleStart ==
  /\ ~ (thr["tk"].pc = "start" /\ thr["tray"].pc = "start")
  /\ \A i, j \in LiveObservers :
       i # j => sess[observers[i]].cfg # sess[observers[j]].cfg

\* C3: between control operations the running indicator is true exactly
\* when at least one session is in the session set.
C3_RunningIffSessions ==
  (\A t \in Threads : thr[t].pc = "idle")
  => (is_watching <=> observers # <<>>)

\* C4: when stop_watching returns, every observer of the session set has
\* been stopped and its thread has ended (so none of them begins a handler
\* invocation afterwards), and the session set is empty.
C4_StopStopsAll ==
  [][ \A t \in Threads :
        (thr[t].pc = "clear" /\ thr'[t].pc # "clear")
        => /\ observers' = <<>>
           /\ \A s \in Range(observers) :
                sess[s].st = "stopped" /\ sess[s].hpc \in { "idle", "crashed" }
    ]_vars

LoggedOutcomes ==
  { "skip_temp", "skip_excluded", "copied", "copy_failed", "vanished" }

StripSuffix(pattern) ==
  IF Len(pattern) >= 2 /\ pattern[Len(pattern) - 1] = SEP
                       /\ pattern[Len(pattern)] = "*"
  THEN SubSeq(pattern, 1, Len(pattern) - 2)
  ELSE IF pattern # <<>> /\ pattern[Len(pattern)] = SEP
       THEN SubSeq(pattern, 1, Len(pattern) - 1)
       ELSE pattern

Reverse(q) == [ k \in 1..Len(q) |-> q[Len(q) + 1 - k] ]

\* C7: a file whose name is not a temp name is rejected exactly when some
\* pattern matches the whole relative path or, with only a trailing "/*"
\* or "/" removed, one of its segments; the order of the patterns does not
\* matter.
C7_RejectIffGlobMatch ==
  LET rel   == SubSeq(mcase.path, Len(LocalA) + 2, Len(mcase.path))
      parts == Split(rel)
      name  == parts[Len(parts)]
  IN  (mcase.res # "none" /\ ~ (name[1] = "." \/ name[Len(name)] = "~"))
      => /\ (mcase.res = "skip_excluded")
            <=> \E k \in 1..Len(mcase.pats) :
                  \/ fnmatch(rel, mcase.pats[k])
                  \/ \E j \in 1..Len(parts) :
                       fnmatch(parts[j], StripSuffix(mcase.pats[k]))
         /\ mcase.res = should_process_file(mcase.path,
                          Target(LocalA, WslA, Reverse(mcase.pats)))

HasTempName(path) ==
  LET parts == Split(path)
      name  == parts[Len(parts)]
  IN  name # <<>> /\ (name[1] = "." \/ name[Len(name)] = "~")

\* C8: a file whose name starts with "." or ends with "~" is never copied,
\* whatever the exclusion patterns: its created / modified event ends as
\* a skipped temp file, also when a pattern matches it, and no temp-named
\* file ever appears at the destination.
C8_TempNeverCopied ==
  /\ \A s \in Sessions :
       HasTempName(sess[s].ev.src_path)
       => /\ sess[s].hpc = "return"
          /\ sess[s].outcome \in { "ignored", "skip_temp" }
          /\ (sess[s].ev.kind \in { "created", "modified" }
              /\ ~sess[s].ev.is_directory)
             => (sess[s].outcome = "skip_temp"
                 /\ sess[s].evlog = << LogEntry("info", "skip_temp") >>)
  /\ \A f \in dstFiles : ~HasTempName(f[1])

C8_Witness ==
  \E s \in Sessions :
    /\ sess[s].outcome = "skip_temp"
    /\ sess[s].cfg.exclude_patterns = <<>>

\* C9: the destination tree changes only while a handler is in the copy
\* of a created or modified event of a regular file that the pattern
\* matcher admits; directory, delete and move events change nothing.
C9_CopyOnlyForAdmittedFileEvents ==
  [][ (dstDirs' # dstDirs \/ dstFiles' # dstFiles)
      => \E s \in Sessions :
           /\ sess[s].hpc \in { "makedirs", "copy2" }
           /\ sess[s].ev.kind \in { "created", "modified" }
           /\ ~sess[s].ev.is_directory
           /\ should_process_file(sess[s].ev.src_path, sess[s].cfg) = "admit"
    ]_vars

C9_Witness ==
  \E s \in Sessions :
    /\ sess[s].hpc = "return"
    /\ sess[s].outcome = "copied"
    /\ sess[s].ev.kind = "created"
    /\ dstFiles # {}

\* the directories strictly between root and root/rel
DirsBetween(root, rel) ==
  LET parts == Split(rel)
  IN  { root \o <<SEP>> \o Join(SubSeq(parts, 1, k)) :
          k \in 1..(Len(parts) - 1) }

\* C10: a copy that succeeds for the file at relative path rel below the
\* source root leaves a file at the same relative path below the
\* destination root, with every directory in between present; existing
\* directories never make the copy fail, and repeating a copy of an
\* unchanged file leaves the destination tree as it was.
C10_CopyKeepsRelativePath ==
  [][ \A s \in Sessions :
        /\ (sess[s].hpc = "copy2" /\ sess'[s].outcome = "copied")
           => \E rel \in RelPaths :
                LET dest == sess[s].cfg.wsl \o <<SEP>> \o rel
                    file == << dest, src[sess[s].ev.src_path] >>
                IN  /\ sess[s].ev.src_path
                         = sess[s].cfg.local \o <<SEP>> \o rel
                    /\ file \in dstFiles'
                    /\ \A f \in dstFiles' : f[1] = dest => f = file
                    /\ DirsBetween(sess[s].cfg.wsl, rel) \subseteq dstDirs'
                    /\ sess[s].cfg.wsl \in dstDirs'
                    /\ file \in dstFiles
                       => (dstFiles' = dstFiles /\ dstDirs' = dstDirs)
        /\ \A k \in 1..Len(sess'[s].evlog) :
             sess'[s].evlog[k].exc # "FileExistsError"
    ]_vars

C10_Witness ==
  \E s \in Sessions :
    /\ sess[s].hpc = "copy2"
    /\ sess[s].ev.src_path
         = join(LocalA, << "a", "/", "b", "/", "n" >>)
    /\ join(WslA, << "a", "/", "b", "/", "n" >>) \in FilePaths(dstFiles)
    /\ join(WslA, << "a", "/", "b" >>) \in dstDirs

\* the exclusion patterns of the example: "*.tmp" and "build/*"
ExamplePatterns == << << "*", ".", "t" >>, << "b", "/", "*" >> >>

LastExc(log) == IF log = <<>> THEN "" ELSE log[Len(log)].exc

\* C11: a created or modified event of an admitted file that still exists
\* ends, unless the file system refuses a call, with the destination file
\* holding the content the source has when it is copied, in place of what
\* the destination held; with the patterns "*.t" and "b/*" the events of
\* b/n and n.t are skipped and change nothing, and each created or
\* modified event of n goes on to the copy.
C11_CopyMirrorsContent ==
  [][ \A s \in Sessions :
        LET cfg  == sess[s].cfg
            p    == sess[s].ev.src_path
            dest == join(cfg.wsl, SubSeq(p, Len(cfg.local) + 2, Len(p)))
            e    == sess'[s].ev
        IN  /\ ( /\ sess[s].hpc = "idle" /\ sess'[s].hpc # "idle"
                 /\ e.kind \in { "created", "modified" } /\ ~e.is_directory
                 /\ cfg.exclude_patterns = ExamplePatterns )
               => /\ e.src_path \in { join(LocalA, << "b", "/", "n" >>),
                                      join(LocalA, << "n", ".", "t" >>) }
                     => /\ sess'[s].outcome = "skip_excluded"
                        /\ sess'[s].hpc = "return"
                        /\ dstFiles' = dstFiles /\ dstDirs' = dstDirs
                  /\ e.src_path = join(LocalA, << "n" >>)
                     => sess'[s].hpc = "copy_to_wsl"
            /\ (sess[s].hpc = "copy_to_wsl" /\ sess'[s].hpc # "copy_to_wsl"
                /\ exists(p))
               => sess'[s].hpc = "makedirs"
            /\ (sess[s].hpc = "makedirs" /\ sess'[s].hpc # "makedirs")
               => \/ sess'[s].hpc = "copy2"
                  \/ /\ sess'[s].outcome = "copy_failed"
                     /\ LastExc(sess'[s].evlog) = "OSError"
            /\ (sess[s].hpc = "copy2" /\ sess'[s].hpc # "copy2"
                /\ exists(p))
               => \/ /\ sess'[s].outcome = "copy_failed"
                     /\ LastExc(sess'[s].evlog) = "OSError"
                  \/ /\ sess'[s].outcome = "copied"
                     /\ << dest, src[p] >> \in dstFiles'
                     /\ \A f \in dstFiles' : f[1] = dest => f[2] = src[p]
    ]_vars

\* a modified event of n is about to overwrite a destination that holds
\* an older content
C11_Witness ==
  \E s \in Sessions :
    /\ sess[s].hpc = "copy2"
    /\ sess[s].ev = Event("modified", FALSE, join(LocalA, << "n" >>))
    /\ sess[s].cfg.exclude_patterns = ExamplePatterns
    /\ exists(sess[s].ev.src_path)
    /\ \E f \in dstFiles :
         f[1] = join(WslA, << "n" >>) /\ f[2] # src[sess[s].ev.src_path]

\* C12: when the call of start_watching that follows a call of
\* stop_watching returns, the session set holds exactly one running
\* session per target of the list, in the order of the list, and the
\* supervisor is in the running state once toggle_watching has ended
\* (quit_app is not under way).
C12_RestartRuns ==
  [][ \A t \in Threads :
        /\ (thr[t].op = "restart" /\ thr[t].pc = "start"
            /\ thr'[t].pc # "start"
            /\ ~quit /\ \A u \in Threads : thr[u].op # "quit")
           => /\ thr'[t].pc = "flip"
              /\ Len(observers') = Len(config)
              /\ \A k \in 1..Len(config) :
                   /\ sess'[observers'[k]].st = "running"
                   /\ sess'[observers'[k]].cfg = config[k]
        /\ (thr[t].op = "restart" /\ thr[t].pc = "flip"
            /\ thr'[t].pc # "flip")
           => is_watching'
    ]_vars

NoActiveSession ==
  observers = <<>> /\ \A s \in Sessions : sess[s].st # "running"

\* C13: a stop while no watch session is active changes nothing: every
\* step a control thread takes in stop_watching, and in the rest of the
\* toggle_watching that called it, leaves the session set, the sessions,
\* the running flag and the destination tree as they are.
C13_StopIdleNoOp ==
  [][ \A t \in Threads :
        ( /\ NoActiveSession
          /\ thr'[t] # thr[t]
          /\ \/ thr[t].pc \in { "stop", "clear" }
             \/ thr[t].pc = "flip" /\ thr[t].op = "stopped_idle" )
        => /\ observers' = observers
           /\ \A s \in Sessions : sess'[s].st = sess[s].st
           /\ is_watching' = is_watching
           /\ dstDirs' = dstDirs /\ dstFiles' = dstFiles
    ]_vars

\* C14: a handler that finds the source file gone, at the existence check
\* or at the copy itself, skips the event: no destination file changes,
\* no error line is logged, and the handler returns to take the next
\* event of its running session.
C14_VanishedIsSkip ==
  [][ \A s \in Sessions :
        ( /\ sess[s].hpc \in { "copy_to_wsl", "copy2" }
          /\ sess'[s].hpc # sess[s].hpc
          /\ ~exists(sess[s].ev.src_path) )
        => /\ dstFiles' = dstFiles
           /\ \A k \in 1..Len(sess'[s].evlog) :
                sess'[s].evlog[k].level # "error"
           /\ sess'[s].hpc = "return"
           /\ sess'[s].st = "running"
    ]_vars

\* C15: a session handles its events with the target it was started
\* with: a file appears in the destination tree only as the copy of an
\* event that its session's own patterns admit, below that session's own
\* destination root and at the path the file has below that session's
\* source root; and when a call of start_watching returns without an
\* exception the session set holds exactly one running session per entry
\* of the target list, bound to that entry (quit_app is not under way).
C15_SessionBoundToTarget ==
  [][ /\ \A f \in dstFiles' \ dstFiles :
           \E s \in Sessions :
             /\ sess[s].st = "running" /\ sess[s].q # <<>>
             /\ LET e   == Head(sess[s].q)
                    cfg == sess[s].cfg
                IN  /\ IsUnder(e.src_path, cfg.local)
                    /\ should_process_file(e.src_path, cfg) = "admit"
                    /\ f[1] = join(cfg.wsl, relpath(e.src_path, cfg.local))
                    /\ \A k \in 1..Len(config) :
                         config[k].wsl # cfg.wsl
                         => ~IsUnder(f[1], config[k].wsl)
      /\ \A t \in Threads :
           (thr[t].pc = "start" /\ thr'[t].pc = "flip"
            /\ ~quit /\ \A u \in Threads : thr[u].op # "quit")
           => /\ Len(observers') = Len(config)
              /\ \A k \in 1..Len(config) :
                   /\ sess'[observers'[k]].st = "running"
                   /\ sess'[observers'[k]].cfg = config[k]
    ]_vars

C17_HandledInOrder ==
  [][ \A s \in Sessions :
        LET q == sess[s].q
        IN  /\ sess'[s].q # q
               => \/ /\ Len(sess'[s].q) = Len(q) + 1
                     /\ SubSeq(sess'[s].q, 1, Len(q)) = q
                  \/ /\ q # <<>>
                     /\ sess'[s].q = Tail(q)
                     /\ sess[s].hpc = "idle" /\ sess'[s].hpc # "idle"
                     /\ sess'[s].ev = Head(q)
            /\ (sess'[s].ev # sess[s].ev /\ sess'[s].ev # NoEvent)
               => /\ sess[s].hpc = "idle"
                  /\ q # <<>>
                  /\ sess'[s].ev = Head(q)
                  /\ sess'[s].q = Tail(q)
    ]_vars

\* two different events of one file wait in a session's queue
C17_Witness ==
  \E s \in Sessions :
    /\ sess[s].hpc = "idle"
    /\ Len(sess[s].q) = 2
    /\ sess[s].q[1].kind = "created"
    /\ sess[s].q[2].kind = "modified"

\* C18: while the handler of one session sits in a copy that does not
\* return, the events waiting in another session are handled all the same:
\* that session gets to the end of its queue, whatever the first one does.
C18_OtherTargetProceeds ==
  (sess[1].hpc = "copy2" /\ sess[2].q # <<>>)
    ~> (sess[2].q = <<>> /\ sess[2].hpc = "idle")

\* the second session has copied a file while the first is still in copy2
C18_Witness ==
  /\ sess[1].hpc = "copy2"
  /\ sess[2].hpc = "return"
  /\ sess[2].outcome = "copied"

\* the files of session s's tree that exist and that the filter admits
Admitted(s) ==
  { p \in world : /\ IsUnder(p, sess[s].cfg.local)
                  /\ exists(p)
                  /\ should_process_file(p, sess[s].cfg) = "admit" }

\* session s has nothing to do and every admitted file of its tree has its
\* present content at the destination
Converged(s) ==
  /\ sess[s].hpc = "idle"
  /\ sess[s].q = <<>>
  /\ \A p \in Admitted(s) :
        << destination_path(p, sess[s].cfg), src[p] >> \in dstFiles

\* C19: when the files of a session's tree are no longer written from
\* outside and no copy fails, the session comes to rest with every admitted
\* file's last content at the destination, and stays so.
C19_Converges == <>[](\A s \in 1..2 : Converged(s))

\* a session at rest whose file was written twice and mirrored
C19_Witness ==
  \E s \in 1..2 :
    /\ Converged(s)
    /\ \E p \in Admitted(s) : src[p] >= 2

\* no destination root is a watched source root or lies below one
NoOverlap(watch_dirs) ==
  \A i, j \in 1..Len(watch_dirs) :
    /\ watch_dirs[i].wsl # watch_dirs[j].local
    /\ ~IsUnder(watch_dirs[i].wsl, watch_dirs[j].local)

\* the files below the source roots of the targets
Watched(watch_dirs) ==
  { p \in DOMAIN src :
      \E j \in 1..Len(watch_dirs) : IsUnder(p, watch_dirs[j].local) }

Quiescent == \A s \in Sessions : sess[s].hpc = "idle" /\ sess[s].q = <<>>

FeedbackEvent ==
  /\ ~NoOverlap(config)
  /\ \E s \in Sessions :
       /\ sess[s].q # <<>>
       /\ \E f \in dstFiles : f[1] = sess[s].q[Len(sess[s].q)].src_path

====
